---------------------------- MODULE Spec2Model ----------------------------
(***************************************************************************)
(* Model of package roth (rothServer.go): the client of the Roth Touchline *)
(* thermostat controller.                                                  *)
(*                                                                         *)
(* Representation.                                                         *)
(*  - A Go string is a sequence of one-character strings, so that          *)
(*    formatting (Sprintf, Itoa, FormatFloat) and parsing (ParseInt, the   *)
(*    regular expression) are computed character by character.             *)
(*  - A float32 is a record [neg, m, e] of value (-1)^neg * m * 2^e with   *)
(*    m = 0 (zero) or 2^23 <= m < 2^24 (a normal number).  Arithmetic is   *)
(*    IEEE-754 round-to-nearest-even.  Subnormals, infinities and NaN are  *)
(*    outside the ranges the model draws its inputs from.                  *)
(*  - The HTTP transport is the environment: each call draws the outcome   *)
(*    of its single request (failure, undecodable body, or a list of       *)
(*    items).                                                              *)
(***************************************************************************)
EXTENDS Integers, Sequences, FiniteSets, TLC

VARIABLES
    op,         \* the exported function whose call has just completed
                \* ("init": none, the caller is free to make a call)
    args,       \* its arguments
    transport,  \* what the transport answered to its request
    httpCalls,  \* the requests it handed to net/http, in order
    result,     \* what it returned (or that it panicked)
    written     \* the (name, value) pairs sent by writes (round-trip runs)

vars == <<op, args, transport, httpCalls, result, written>>

-----------------------------------------------------------------------------
(* Program constants *)

ProgramConstant == 0
Program1 == 1
Program2 == 2
Program3 == 3
ModeDay == 0
ModeNight == 1
ModeHoliday == 2

\* bitSize arguments of the strconv.ParseInt calls
CountBits == 8
IndexBits == 8
ValueBits == 16
\* float32 has a 24-bit significand
MantBits == 24
\* the factor between degrees and the wire's fixed-point value
Scale == 100
\* number of items requested per sensor
FieldsPerSensor == 5

-----------------------------------------------------------------------------
(* Bounds of the model *)

\* sensorCount ranges over 0..MaxSensors (and BigSensorCount)
MaxSensors == 2
\* a response carries at most MaxItems items
MaxItems == 2
\* temperatures range over windows of +-MaxTempSpan thousandths of a degree
MaxTempSpan == 12

\* the smallest sensor count that has a position beyond the int8 range of
\* the index parse
BigSensorCount == 2 ^ (IndexBits - 1)

-----------------------------------------------------------------------------
(* Strings *)

DigitChars == <<"0", "1", "2", "3", "4", "5", "6", "7", "8", "9">>

IsDigit(c) == \E d \in 1..10 : DigitChars[d] = c

DigitVal(c) == (CHOOSE d \in 1..10 : DigitChars[d] = c) - 1

sRaumTemp == <<"R", "a", "u", "m", "T", "e", "m", "p">>
sSollTemp == <<"S", "o", "l", "l", "T", "e", "m", "p">>
sName == <<"n", "a", "m", "e">>
sWeekProg == <<"W", "e", "e", "k", "P", "r", "o", "g">>
sOPmode == <<"O", "P", "m", "o", "d", "e">>
sOPMode == <<"O", "P", "M", "o", "d", "e">>
sTotalNumberOfDevices ==
    <<"t", "o", "t", "a", "l", "N", "u", "m", "b", "e", "r",
      "O", "f", "D", "e", "v", "i", "c", "e", "s">>
sReadPath ==
    <<"/", "c", "g", "i", "-", "b", "i", "n", "/", "I", "L", "R", "R", "e",
      "a", "d", "V", "a", "l", "u", "e", "s", ".", "c", "g", "i">>
sWritePath ==
    <<"/", "c", "g", "i", "-", "b", "i", "n", "/", "w", "r", "i", "t", "e",
      "V", "a", "l", ".", "c", "g", "i", "?">>

\* strconv.Itoa / fmt's %v of a non-negative int
RECURSIVE UItoa(_)
UItoa(n) ==
    IF n < 10 THEN <<DigitChars[n + 1]>>
    ELSE UItoa(n \div 10) \o <<DigitChars[(n % 10) + 1]>>

\* strconv.Itoa / fmt's %v of an int
Itoa(n) == IF n < 0 THEN <<"-">> \o UItoa(-n) ELSE UItoa(n)

NoErr == [msg |-> "nil", arg |-> <<>>]
Err(m) == [msg |-> m, arg |-> <<>>]

\* strconv.ParseUint(s, 10, bitSize) from the digits read so far (acc): the
\* scan runs left to right and stops at the first character that is no
\* digit (syntax error, value 0) or at the first digit that takes the
\* number above 2^bitSize - 1 (range error, value 2^bitSize - 1), whichever
\* comes first
RECURSIVE ParseUint(_, _, _)
ParseUint(s, acc, maxVal) ==
    IF Len(s) = 0 THEN [val |-> acc, err |-> "nil"]
    ELSE IF ~IsDigit(Head(s)) THEN [val |-> 0, err |-> "syntax"]
    ELSE LET n == acc * 10 + DigitVal(Head(s))
         IN  IF n > maxVal THEN [val |-> maxVal, err |-> "range"]
             ELSE ParseUint(Tail(s), n, maxVal)

\* strconv.ParseInt(s, 10, bitSize): [val, err] with err in
\* {"nil", "syntax", "range"}; val is 0 on a syntax error and the nearest
\* representable bound on a range error
ParseInt(s, bitSize) ==
    IF Len(s) = 0 THEN [val |-> 0, err |-> "syntax"]
    ELSE
      LET neg == s[1] = "-"
          body == IF s[1] \in {"+", "-"} THEN Tail(s) ELSE s
          cutoff == 2 ^ (bitSize - 1)
          un == IF Len(body) = 0 THEN [val |-> 0, err |-> "syntax"]
                ELSE ParseUint(body, 0, 2 * cutoff - 1)
      IN  IF un.err = "syntax" THEN [val |-> 0, err |-> "syntax"]
          ELSE IF ~neg /\ un.val >= cutoff
          THEN [val |-> cutoff - 1, err |-> "range"]
          ELSE IF neg /\ un.val > cutoff
          THEN [val |-> -cutoff, err |-> "range"]
          ELSE [val |-> IF neg THEN -un.val ELSE un.val, err |-> "nil"]

-----------------------------------------------------------------------------
(* float32 *)

MantLo == 2 ^ (MantBits - 1)
MantHi == 2 ^ MantBits

F32Zero == [neg |-> FALSE, m |-> 0, e |-> 0]

\* the float32 nearest to (q + r/den) * 2^e, for 0 <= r < den, q < 2^24 and
\* q + r > 0: binary long division until the quotient has 24 bits, then
\* round to nearest, ties to even
RECURSIVE RoundF32(_, _, _, _, _)
RoundF32(q, r, den, e, neg) ==
    IF q >= MantLo
    THEN LET up == (2 * r > den) \/ (2 * r = den /\ q % 2 = 1)
             m1 == IF up THEN q + 1 ELSE q
         IN  IF m1 = MantHi
             THEN [neg |-> neg, m |-> MantLo, e |-> e + 1]
             ELSE [neg |-> neg, m |-> m1, e |-> e]
    ELSE RoundF32(2 * q + ((2 * r) \div den), (2 * r) % den, den, e - 1, neg)

Abs(n) == IF n < 0 THEN -n ELSE n

\* the float32 nearest to num/den (how a float32 argument holds a decimal)
F32FromRatio(num, den) ==
    IF num = 0 THEN F32Zero
    ELSE RoundF32(Abs(num) \div den, Abs(num) % den, den, 0, num < 0)

\* the float32 argument holding n thousandths of a degree
F32FromMilli(n) == F32FromRatio(n, 1000)

\* float32(i) for an integer of magnitude below 2^24 (exact)
F32FromInt(i) == F32FromRatio(i, 1)

\* x / d in float32
F32Div(x, d) ==
    IF x.m = 0 THEN x ELSE RoundF32(x.m \div d, x.m % d, d, x.e, x.neg)

\* x * k in float32, for k < 2^7
F32Mul(x, k) ==
    IF x.m = 0 THEN x
    ELSE
      LET n == x.m * k
      IN  IF n < MantHi THEN RoundF32(n, 0, 1, x.e, x.neg)
          ELSE
            LET s == CHOOSE t \in 1..7 : n \div (2 ^ t) < MantHi
                                         /\ n \div (2 ^ t) >= MantLo
            IN  RoundF32(n \div (2 ^ s), n % (2 ^ s), 2 ^ s, x.e + s, x.neg)

\* a < b on float32
F32Less(a, b) ==
    LET sgn(x) == IF x.m = 0 THEN 0 ELSE IF x.neg THEN -1 ELSE 1
        magLess(x, y) == x.e < y.e \/ (x.e = y.e /\ x.m < y.m)
    IN  IF sgn(a) # sgn(b) THEN sgn(a) < sgn(b)
        ELSE IF sgn(a) = 0 THEN FALSE
        ELSE IF sgn(a) = 1 THEN magLess(a, b)
        ELSE magLess(b, a)

\* the integer nearest to |x|, ties to even (the decimal rounding of
\* strconv.FormatFloat at precision 0)
RoundHalfEven(x) ==
    IF x.e >= 0 THEN x.m * (2 ^ x.e)
    ELSE IF -x.e > MantBits + 1 THEN 0
    ELSE LET p == 2 ^ (-x.e)
             q == x.m \div p
             r == x.m % p
         IN  IF 2 * r > p \/ (2 * r = p /\ q % 2 = 1) THEN q + 1 ELSE q

\* strconv.FormatFloat(float64(x), 'f', 0, 32)
FormatFloat(x) ==
    (IF x.neg THEN <<"-">> ELSE <<>>) \o UItoa(RoundHalfEven(x))

-----------------------------------------------------------------------------
(* Sensor *)

ZeroSensor ==
    [Id |-> 0, Name |-> <<>>, RoomTemperature |-> F32Zero,
     TargetTemperature |-> F32Zero, Program |-> 0, Mode |-> 0]

ValveOpen == "open"
ValveClosed == "closed"

GetValveState(s) ==
    IF F32Less(s.RoomTemperature, s.TargetTemperature)
    THEN ValveOpen ELSE ValveClosed

GetValveValue(s) ==
    IF F32Less(s.RoomTemperature, s.TargetTemperature) THEN 1 ELSE 0

-----------------------------------------------------------------------------
(* Reading *)

Item(n, v) == [Name |-> n, Value |-> v]

\* the URL readValues posts to
ReadURL(managementURL) == managementURL \o sReadPath

\* readValues: what it returns for the transport's outcome
\*   postFail: http.Post failed      readFail: reading the body failed
\*   badXml:   xml.Unmarshal failed  ok: the body decoded to outcome.items
readValues(outcome) ==
    CASE outcome.kind = "postFail" ->
           [items |-> <<>>, err |-> Err("error requesting data from server")]
      [] outcome.kind = "readFail" ->
           [items |-> <<>>, err |-> Err("error reading response")]
      [] outcome.kind = "badXml" ->
           [items |-> <<>>, err |-> Err("error parsing xml")]
      [] OTHER -> [items |-> outcome.items, err |-> NoErr]

\* the request of GetSensorCount
CountRequest == <<sTotalNumberOfDevices>>

GetSensorCount_ZeroOnEmpty(outcome) ==
    LET resp == readValues(outcome)
    IN  IF resp.err # NoErr THEN [count |-> 0, err |-> resp.err]
        ELSE IF Len(resp.items) = 0 THEN [count |-> 0, err |-> NoErr]
        ELSE [count |-> ParseInt(resp.items[1].Value, CountBits).val,
              err |-> NoErr]

\* GetSensorCount: (sensorCount, err)
GetSensorCount(outcome) ==
    LET resp == readValues(outcome)
    IN  IF resp.err # NoErr THEN [count |-> 0, err |-> resp.err]
        ELSE IF Len(resp.items) = 0
        THEN [count |-> 0, err |-> Err("no values returned")]
        ELSE LET p == ParseInt(resp.items[1].Value, CountBits)
             IN  IF p.err # "nil"
                 THEN [count |-> 0,
                       err |-> [msg |-> "Unexpected value",
                                arg |-> resp.items[1].Value]]
                 ELSE [count |-> p.val, err |-> NoErr]

\* the field names GetSensors asks for, in request order
RequestFields == <<sRaumTemp, sSollTemp, sName, sWeekProg, sOPmode>>

\* fmt.Sprintf("G%v.<field>", i)
ItemName(i, field) == <<"G">> \o Itoa(i) \o <<".">> \o field

BuildRequest_Shifted(sensorCount) ==
    IF sensorCount < 0 THEN [panicked |-> TRUE, names |-> <<>>]
    ELSE [panicked |-> FALSE,
          names |->
            [k \in 1..(sensorCount * FieldsPerSensor) |->
               ItemName(((k - 1) \div FieldsPerSensor) + 1,
                        RequestFields[((k - 1) % FieldsPerSensor) + 1])]]

\* the request of GetSensors: position i*5+j (0-based) names field j of
\* sensor i; make() of a negative length panics
BuildRequest(sensorCount) ==
    IF sensorCount < 0 THEN [panicked |-> TRUE, names |-> <<>>]
    ELSE [panicked |-> FALSE,
          names |->
            [k \in 1..(sensorCount * FieldsPerSensor) |->
               ItemName((k - 1) \div FieldsPerSensor,
                        RequestFields[((k - 1) % FieldsPerSensor) + 1])]]

\* the number of leading decimal digits of s
RECURSIVE DigitRun(_)
DigitRun(s) ==
    IF Len(s) > 0 /\ IsDigit(Head(s)) THEN 1 + DigitRun(Tail(s)) ELSE 0

\* sensorInfoParser.FindStringSubmatch(name) for ^G([0-9]+)\.(.+)$
\* ("." does not match a newline)
sensorInfoParser(name) ==
    LET k == IF Len(name) > 0 THEN DigitRun(Tail(name)) ELSE 0
        n == Len(name)
    IN  IF /\ n >= k + 3
           /\ name[1] = "G"
           /\ k >= 1
           /\ name[k + 2] = "."
           /\ \A i \in (k + 3)..n : name[i] # "\n"
        THEN [matched |-> TRUE, index |-> SubSeq(name, 2, k + 1),
              field |-> SubSeq(name, k + 3, n)]
        ELSE [matched |-> FALSE, index |-> <<>>, field |-> <<>>]

ApplyField_DefaultSetsName(sensor, valueName, value, intValue, floatValue) ==
    CASE valueName = sRaumTemp -> [sensor EXCEPT !.RoomTemperature = floatValue]
      [] valueName = sSollTemp ->
           [sensor EXCEPT !.TargetTemperature = floatValue]
      [] valueName = sName -> [sensor EXCEPT !.Name = value]
      [] valueName = sWeekProg -> [sensor EXCEPT !.Program = intValue]
      [] valueName = sOPmode -> [sensor EXCEPT !.Mode = intValue]
      [] OTHER -> [sensor EXCEPT !.Name = value]

\* the switch on valueName
ApplyField(sensor, valueName, value, intValue, floatValue) ==
    CASE valueName = sRaumTemp -> [sensor EXCEPT !.RoomTemperature = floatValue]
      [] valueName = sSollTemp ->
           [sensor EXCEPT !.TargetTemperature = floatValue]
      [] valueName = sName -> [sensor EXCEPT !.Name = value]
      [] valueName = sWeekProg -> [sensor EXCEPT !.Program = intValue]
      [] valueName = sOPmode -> [sensor EXCEPT !.Mode = intValue]
      [] OTHER -> sensor

\* the float the decode derives from an item's value: float32(intValue)/100
\* when the value parses as an int16, else the zero value
ValueFloat(p) ==
    IF p.err = "nil" THEN F32Div(F32FromInt(p.val), Scale) ELSE F32Zero

\* one iteration of the decode loop on the collection st.sensors; indexing
\* the slice outside 0..len-1 panics
DecodeItem(st, item) ==
    IF st.panicked THEN st
    ELSE
      LET info == sensorInfoParser(item.Name)
      IN  IF ~info.matched THEN st
          ELSE
            LET sensorIndex == ParseInt(info.index, IndexBits).val
                p == ParseInt(item.Value, ValueBits)
            IN  IF sensorIndex < 0 \/ sensorIndex >= Len(st.sensors)
                THEN [panicked |-> TRUE, sensors |-> st.sensors]
                ELSE [panicked |-> FALSE,
                      sensors |->
                        [st.sensors EXCEPT ![sensorIndex + 1] =
                           ApplyField([@ EXCEPT !.Id = sensorIndex],
                                      info.field, item.Value, p.val,
                                      ValueFloat(p))]]

\* the decode loop over resp.Items
RECURSIVE DecodeItems(_, _)
DecodeItems(st, items) ==
    IF Len(items) = 0 THEN st
    ELSE DecodeItems(DecodeItem(st, Head(items)), Tail(items))

Panic == [status |-> "panic", sensors |-> <<>>, err |-> NoErr]

GetSensors_PartialOnError(sensorCount, outcome) ==
    IF BuildRequest(sensorCount).panicked THEN Panic
    ELSE
      LET resp == readValues(outcome)
          st == DecodeItems(
                  [panicked |-> FALSE,
                   sensors |-> [i \in 1..sensorCount |-> ZeroSensor]],
                  resp.items)
      IN  IF resp.err # NoErr
          THEN [status |-> "error", sensors |-> st.sensors, err |-> resp.err]
          ELSE IF st.panicked THEN Panic
          ELSE [status |-> "ok", sensors |-> st.sensors, err |-> NoErr]

\* GetSensors: (sensors, err), or a run-time panic (building the request for
\* a negative sensorCount, before anything is sent, or indexing the
\* collection out of range in the decode)
GetSensors(sensorCount, outcome) ==
    IF BuildRequest(sensorCount).panicked THEN Panic
    ELSE
      LET resp == readValues(outcome)
      IN  IF resp.err # NoErr
          THEN [status |-> "error", sensors |-> <<>>, err |-> resp.err]
          ELSE
            LET st == DecodeItems(
                        [panicked |-> FALSE,
                         sensors |-> [i \in 1..sensorCount |-> ZeroSensor]],
                        resp.items)
            IN  IF st.panicked THEN Panic
                ELSE [status |-> "ok", sensors |-> st.sensors, err |-> NoErr]

-----------------------------------------------------------------------------
(* Writing *)

\* the key of a write: G<sensorID>.<valueName>
WriteKey(sensorID, valueName) == ItemName(sensorID, valueName)

writeURL_NextSensor(managementURL, sensorID, valueName, value) ==
    managementURL \o sWritePath \o WriteKey(sensorID + 1, valueName)
        \o <<"=">> \o value

\* the URL writeValue gets
writeURL(managementURL, sensorID, valueName, value) ==
    managementURL \o sWritePath \o WriteKey(sensorID, valueName)
        \o <<"=">> \o value

\* writeValue: the error it returns for the transport's outcome
writeValue(outcome) ==
    IF outcome.kind = "getFail" THEN Err("error sending data to server")
    ELSE NoErr

\* the value SetTargetTemperature writes
TargetTemperatureValue(targetTemperature) ==
    FormatFloat(F32Mul(targetTemperature, Scale))

\* the value SetProgram writes
ProgramValue(program) == Itoa(program)

\* the value SetMode writes
ModeValue(mode) == Itoa(mode)

-----------------------------------------------------------------------------
(* Inputs *)

SeqsUpTo(S, n) == UNION {[1..k -> S] : k \in 0..n}

ManagementURLs == {<<"h", "t", "t", "p", ":", "/", "/", "r">>}

sKitchen == <<"K", "i", "t", "c", "h", "e", "n">>
sFoo == <<"F", "o", "o">>

\* items a controller (or a faulty one) may answer a full read with
ResponseItems ==
    { Item(ItemName(0, sRaumTemp), <<"2", "0", "8", "6">>),
      Item(ItemName(0, sSollTemp), <<"2", "1", "0", "0">>),
      Item(ItemName(0, sName), sKitchen),
      Item(ItemName(0, sWeekProg), <<"2">>),
      Item(ItemName(0, sWeekProg), <<"7", "0", "0", "0", "0", "x">>),
      Item(ItemName(0, sOPmode), <<"1">>),
      Item(ItemName(0, sOPMode), <<"1">>),
      Item(ItemName(0, sFoo), <<"7">>),
      Item(ItemName(1, sRaumTemp), <<"-", "5", "5", "0">>),
      Item(ItemName(1, sSollTemp), <<"4", "0", "0", "0", "0">>),
      Item(ItemName(1, sOPmode), <<"4", "0", "0", "0", "0">>),
      Item(ItemName(MaxSensors, sRaumTemp), <<"2", "0", "8", "6">>),
      Item(ItemName(BigSensorCount, sName), sKitchen),
      Item(<<"G", "x", "x", ".">> \o sRaumTemp, <<"2", "0", "8", "6">>),
      Item(sTotalNumberOfDevices, <<"2">>) }

\* items a controller may answer the count query with
CountItems ==
    { Item(sTotalNumberOfDevices, v) :
        v \in { <<"0">>, <<"2">>, <<"1", "2", "7">>, <<"1", "2", "8">>,
                <<"-", "1">>, <<"+", "3">>, <<>>, sKitchen, <<"2", ".", "0">>,
                <<"3", "0", "0", "x">> } }

ReadFailures ==
    { [kind |-> k, items |-> <<>>] : k \in {"postFail", "readFail", "badXml"} }

Ok(items) == [kind |-> "ok", items |-> items]

SensorOutcomes ==
    ReadFailures \cup { Ok(items) : items \in SeqsUpTo(ResponseItems, MaxItems) }

\* the responses drawn for the call with BigSensorCount sensors (one item
\* fewer: its collection and request are large)
BigSensorOutcomes ==
    ReadFailures
      \cup { Ok(items) : items \in SeqsUpTo(ResponseItems, MaxItems - 1) }

CountOutcomes ==
    ReadFailures \cup { Ok(items) : items \in SeqsUpTo(CountItems, MaxItems) }

WriteOutcomes == { [kind |-> "ok"], [kind |-> "getFail"] }

\* -1 is a count GetSensorCount can hand to its caller (response "-1")
SensorCounts == (-1)..MaxSensors

\* the (sensorCount, transport outcome) pairs GetSensors is called with
SensorCalls ==
    (SensorCounts \X SensorOutcomes) \cup ({BigSensorCount} \X BigSensorOutcomes)

SensorIDs == 0..MaxSensors

\* thousandths of a degree
TempCentres == {0, 20860, 21456, -5505, 327670}

TempMillis == { c + d : c \in TempCentres, d \in (-MaxTempSpan)..MaxTempSpan }

Programs == {ProgramConstant, Program1, Program2, Program3}

Modes == {ModeDay, ModeNight, ModeHoliday}

-----------------------------------------------------------------------------
(* The exported functions, one call each *)

NoResult == [status |-> "none"]

Post(managementURL, names) ==
    [method |-> "POST", url |-> ReadURL(managementURL), body |-> names]

Get(url) == [method |-> "GET", url |-> url, body |-> <<>>]

Init ==
    /\ op = "init"
    /\ args = [managementURL |-> <<>>]
    /\ transport = [kind |-> "none"]
    /\ httpCalls = <<>>
    /\ result = NoResult
    /\ written = <<>>

DoGetSensorCount ==
    /\ op = "init"
    /\ \E u \in ManagementURLs, outcome \in CountOutcomes :
        /\ op' = "GetSensorCount"
        /\ args' = [managementURL |-> u]
        /\ transport' = outcome
        /\ httpCalls' = <<Post(u, CountRequest)>>
        /\ result' = GetSensorCount(outcome)
        /\ written' = <<>>

\* the transport is reached only when the request could be built
DoGetSensors ==
    /\ op = "init"
    /\ \E u \in ManagementURLs, call \in SensorCalls :
        LET n == call[1]
            outcome == call[2]
            req == BuildRequest(n)
        IN  /\ op' = "GetSensors"
            /\ args' = [managementURL |-> u, sensorCount |-> n]
            /\ transport' = IF req.panicked THEN [kind |-> "none"] ELSE outcome
            /\ httpCalls' = IF req.panicked THEN <<>>
                            ELSE <<Post(u, req.names)>>
            /\ result' = GetSensors(n, outcome)
            /\ written' = <<>>

\* a write: the request it sends, the pair it carries, what it returns
Write(u, sensorID, valueName, value, outcome) ==
    /\ transport' = outcome
    /\ httpCalls' = <<Get(writeURL(u, sensorID, valueName, value))>>
    /\ written' = <<Item(WriteKey(sensorID, valueName), value)>>
    /\ result' = [status |-> "returned", err |-> writeValue(outcome)]

DoSetTargetTemperature ==
    /\ op = "init"
    /\ \E u \in ManagementURLs, id \in SensorIDs, t \in TempMillis,
       outcome \in WriteOutcomes :
        /\ op' = "SetTargetTemperature"
        /\ args' = [managementURL |-> u, sensorID |-> id, milli |-> t,
                    targetTemperature |-> F32FromMilli(t)]
        /\ Write(u, id, sSollTemp,
                 TargetTemperatureValue(F32FromMilli(t)), outcome)

DoSetProgram ==
    /\ op = "init"
    /\ \E u \in ManagementURLs, id \in SensorIDs, p \in Programs,
       outcome \in WriteOutcomes :
        /\ op' = "SetProgram"
        /\ args' = [managementURL |-> u, sensorID |-> id, program |-> p]
        /\ Write(u, id, sWeekProg, ProgramValue(p), outcome)

DoSetMode ==
    /\ op = "init"
    /\ \E u \in ManagementURLs, id \in SensorIDs, m \in Modes,
       outcome \in WriteOutcomes :
        /\ op' = "SetMode"
        /\ args' = [managementURL |-> u, sensorID |-> id, mode |-> m]
        /\ Write(u, id, sOPMode, ModeValue(m), outcome)

\* the caller takes the result; every call starts from scratch (the package
\* keeps no state between calls)
Return ==
    /\ op # "init"
    /\ op' = "init"
    /\ args' = [managementURL |-> <<>>]
    /\ transport' = [kind |-> "none"]
    /\ httpCalls' = <<>>
    /\ result' = NoResult
    /\ written' = <<>>

Next ==
    \/ Return
    \/ DoGetSensorCount
    \/ DoGetSensors
    \/ DoSetTargetTemperature
    \/ DoSetProgram
    \/ DoSetMode

Spec == Init /\ [][Next]_vars

-----------------------------------------------------------------------------
(* Round trip: the three writes for one sensor, then a read whose response *)
(* carries the pairs the writes sent                                       *)

RTInit ==
    /\ op = "init"
    /\ \E u \in ManagementURLs, n \in 1..MaxSensors, t \in TempMillis,
          p \in Programs, m \in Modes :
         \E id \in 0..(n - 1) :
            args = [managementURL |-> u, sensorCount |-> n, sensorID |-> id,
                    milli |-> t, targetTemperature |-> F32FromMilli(t),
                    program |-> p, mode |-> m]
    /\ transport = [kind |-> "none"]
    /\ httpCalls = <<>>
    /\ result = NoResult
    /\ written = <<>>

\* a write of the round trip: its pair joins the pairs the controller holds
RTWrite(valueName, value) ==
    /\ transport' = [kind |-> "ok"]
    /\ httpCalls' =
         Append(httpCalls,
                Get(writeURL(args.managementURL, args.sensorID, valueName,
                             value)))
    /\ written' = Append(written, Item(WriteKey(args.sensorID, valueName), value))
    /\ result' = [status |-> "returned", err |-> writeValue([kind |-> "ok"])]
    /\ UNCHANGED args

RTSetTargetTemperature ==
    /\ op = "init"
    /\ op' = "SetTargetTemperature"
    /\ RTWrite(sSollTemp, TargetTemperatureValue(args.targetTemperature))

RTSetProgram ==
    /\ op = "SetTargetTemperature"
    /\ op' = "SetProgram"
    /\ RTWrite(sWeekProg, ProgramValue(args.program))

RTSetMode ==
    /\ op = "SetProgram"
    /\ op' = "SetMode"
    /\ RTWrite(sOPMode, ModeValue(args.mode))

RTGetSensors ==
    /\ op = "SetMode"
    /\ op' = "GetSensors"
    /\ transport' = Ok(written)
    /\ httpCalls' =
         Append(httpCalls,
                Post(args.managementURL,
                     BuildRequest(args.sensorCount).names))
    /\ result' = GetSensors(args.sensorCount, Ok(written))
    /\ UNCHANGED <<args, written>>

RTNext ==
    \/ RTSetTargetTemperature
    \/ RTSetProgram
    \/ RTSetMode
    \/ RTGetSensors

SpecRoundTrip == RTInit /\ [][RTNext]_vars

-----------------------------------------------------------------------------
(* Vocabulary of the properties *)

\* the number a run of decimal digits denotes (no width)
RECURSIVE DigitsValue(_, _)
DigitsValue(digits, acc) ==
    IF Len(digits) = 0 THEN acc
    ELSE DigitsValue(Tail(digits), acc * 10 + DigitVal(Head(digits)))

TrueIndex(digits) == DigitsValue(digits, 0)

\* s is an optional sign followed by at least one decimal digit
IsDecimalInteger(s) ==
    /\ Len(s) > 0
    /\ LET body == IF s[1] \in {"+", "-"} THEN Tail(s) ELSE s
       IN  Len(body) > 0 /\ \A i \in 1..Len(body) : IsDigit(body[i])

\* the integer a decimal string denotes (magnitude below 10^6)
DecimalValue(s) ==
    LET body == IF s[1] \in {"+", "-"} THEN Tail(s) ELSE s
    IN  IF s[1] = "-" THEN -TrueIndex(body) ELSE TrueIndex(body)

KnownFields == {sRaumTemp, sSollTemp, sName, sWeekProg, sOPmode}

\* a sensor record without its Id
Attributes(sensor) ==
    <<sensor.Name, sensor.RoomTemperature, sensor.TargetTemperature,
      sensor.Program, sensor.Mode>>

\* the position of the first c in s (0 when there is none)
RECURSIVE IndexOf(_, _)
IndexOf(s, c) ==
    IF Len(s) = 0 THEN 0
    ELSE IF Head(s) = c THEN 1
    ELSE LET k == IndexOf(Tail(s), c) IN IF k = 0 THEN 0 ELSE k + 1

\* a write URL taken apart: what precedes the "?", the key and the value
\* around the "="
ParsedWrite(url) ==
    LET q == IndexOf(url, "?")
        query == SubSeq(url, q + 1, Len(url))
        eq == IndexOf(query, "=")
    IN  [ok |-> q > 0 /\ eq > 0,
         path |-> SubSeq(url, 1, q - 1),
         key |-> SubSeq(query, 1, eq - 1),
         value |-> SubSeq(query, eq + 1, Len(query))]

sWriteCgi ==
    <<"/", "c", "g", "i", "-", "b", "i", "n", "/",
      "w", "r", "i", "t", "e", "V", "a", "l", ".", "c", "g", "i">>

ReadDone == op = "GetSensors" /\ transport.kind = "ok"

\* the item is one of the full read's response naming sensor i
Names(item, i) ==
    LET info == sensorInfoParser(item.Name)
    IN  info.matched /\ TrueIndex(info.index) = i

-----------------------------------------------------------------------------
(* Properties *)

\* the items of a response that name a sensor whose index (as written) lies
\* in 0..n-1, or that do not match the indexed pattern at all
InRangeOrUnmatched(items, n) ==
    LET keep(item) ==
          LET info == sensorInfoParser(item.Name)
          IN  ~info.matched \/ TrueIndex(info.index) < n
    IN  SelectSeq(items, keep)

\* C1: a response item G<k>.<field> whose index is not in 0..sensorCount-1
\* is skipped: the decode completes normally and returns what the other
\* items alone decode to.
C1_OutOfRangeSkipped ==
    ReadDone =>
        /\ result.status = "ok"
        /\ result.sensors =
             GetSensors(args.sensorCount,
                        Ok(InRangeOrUnmatched(transport.items,
                                              args.sensorCount))).sensors

\* C2: the request of GetSensors(sensorCount) has 5 * sensorCount names, and
\* the name at position 5i+j is G<i>.<field j> for the fields RaumTemp,
\* SollTemp, name, WeekProg, OPmode in this order.
C2_RequestNames ==
    (op = "GetSensors" /\ args.sensorCount >= 0) =>
        LET names == httpCalls[1].body
            n == args.sensorCount
            fields == <<sRaumTemp, sSollTemp, sName, sWeekProg, sOPmode>>
        IN  /\ Len(httpCalls) = 1
            /\ Len(names) = 5 * n
            /\ \A i \in 0..(n - 1), j \in 1..5 :
                  LET name == names[5 * i + j]
                      info == sensorInfoParser(name)
                  IN  /\ info.matched
                      /\ TrueIndex(info.index) = i
                      /\ Len(info.index) = Len(UItoa(i))
                      /\ info.field = fields[j]

C2_Witness ==
    /\ op = "GetSensors"
    /\ args.sensorCount = 2
    /\ Len(httpCalls[1].body) = 10
    /\ httpCalls[1].body[9] = <<"G", "1", ".">> \o sWeekProg

\* an item the decode is to pass over: its name does not match the indexed
\* pattern, or it matches with an index in 0..n-1 and an unknown field
Skippable(item, n) ==
    LET info == sensorInfoParser(item.Name)
    IN  \/ ~info.matched
        \/ /\ TrueIndex(info.index) < n
           /\ info.field \notin KnownFields

\* C3: an item whose name does not match G<digits>.<field>, or matches with
\* an in-range index and an unknown field, does not abort the decode and
\* changes no name, temperature, program or mode: the decode ends as it
\* does on the response without these items, with the same attributes in
\* every record.
C3_SkippedItemsChangeNothing ==
    ReadDone =>
        LET n == args.sensorCount
            keep(item) == ~Skippable(item, n)
            ref == GetSensors(n, Ok(SelectSeq(transport.items, keep)))
        IN  /\ result.status = ref.status
            /\ result.status = "ok" =>
                 \A i \in 1..n :
                    Attributes(result.sensors[i]) = Attributes(ref.sensors[i])

C3_Witness ==
    /\ ReadDone
    /\ result.status = "ok"
    /\ args.sensorCount = 1
    /\ transport.items =
         <<Item(ItemName(0, sFoo), <<"7">>),
           Item(ItemName(0, sRaumTemp), <<"2", "0", "8", "6">>)>>
    /\ result.sensors[1].RoomTemperature = F32FromRatio(2086, 100)
    /\ result.sensors[1].Name = <<>>

\* C4: GetSensorCount returns an error when the response has no items and
\* when the first item's value is not a decimal integer; it never hands a
\* count to the caller as a success in these cases.
C4_CountErrors ==
    (op = "GetSensorCount" /\ transport.kind = "ok") =>
        ((\/ Len(transport.items) = 0
          \/ ~IsDecimalInteger(transport.items[1].Value))
           => (result.err # NoErr /\ result.count = 0))

C4_Witness ==
    /\ op = "GetSensorCount"
    /\ transport = Ok(<<>>)
    /\ result.err = Err("no values returned")

\* the magnitude of the value a temperature write carries
WrittenMagnitude == Abs(DecimalValue(written[1].Value))

\* C5: the value SetTargetTemperature writes for a temperature t (given in
\* thousandths of a degree) is the decimal string of t * 100 truncated
\* toward zero; 21.456 is written as "2145".
C5_Truncates ==
    op = "SetTargetTemperature" =>
        /\ IsDecimalInteger(written[1].Value)
        /\ WrittenMagnitude = Abs(args.milli) \div 10

\* C6: every write gets <managementURL>/cgi-bin/writeVal.cgi?G<id>.<field>=
\* <value> with the caller's sensor id; SetTargetTemperature writes SollTemp
\* with the temperature scaled by 100, SetProgram writes WeekProg with the
\* program unscaled, SetMode writes OPMode with the mode unscaled.
C6_WriteCommand ==
    op \in {"SetTargetTemperature", "SetProgram", "SetMode"} =>
        /\ Len(httpCalls) = 1
        /\ httpCalls[1].method = "GET"
        /\ LET w == ParsedWrite(httpCalls[1].url)
               info == sensorInfoParser(w.key)
           IN  /\ w.ok
               /\ w.path = args.managementURL \o sWriteCgi
               /\ info.matched
               /\ info.index = UItoa(args.sensorID)
               /\ IsDecimalInteger(w.value)
               /\ CASE op = "SetTargetTemperature" ->
                         /\ info.field = <<"S", "o", "l", "l", "T", "e", "m", "p">>
                         /\ Abs(10 * DecimalValue(w.value) - args.milli) <= 5
                    [] op = "SetProgram" ->
                         /\ info.field = <<"W", "e", "e", "k", "P", "r", "o", "g">>
                         /\ DecimalValue(w.value) = args.program
                    [] op = "SetMode" ->
                         /\ info.field = <<"O", "P", "M", "o", "d", "e">>
                         /\ DecimalValue(w.value) = args.mode

C6_Witness ==
    /\ op = "SetMode"
    /\ args.sensorID = 1
    /\ args.mode = ModeHoliday
    /\ httpCalls[1].url =
         args.managementURL \o sWriteCgi
           \o <<"?", "G", "1", ".", "O", "P", "M", "o", "d", "e", "=", "2">>

\* the last item of the response for field f of sensor i
IsLastFor(items, k, i, f) ==
    LET info == sensorInfoParser(items[k].Name)
    IN  /\ info.matched
        /\ TrueIndex(info.index) = i
        /\ info.field = f
        /\ \A k2 \in (k + 1)..Len(items) :
              LET i2 == sensorInfoParser(items[k2].Name)
              IN  ~(i2.matched /\ TrueIndex(i2.index) = i /\ i2.field = f)

\* C7: for every item G<i>.RaumTemp or G<i>.SollTemp with i in range whose
\* value is a decimal integer v, the decode stores v / 100 (the float32
\* nearest to it) in the room (target) temperature of sensor i.
C7_StoresHundredths ==
    (ReadDone /\ result.status = "ok") =>
        \A k \in 1..Len(transport.items), i \in 0..(args.sensorCount - 1) :
            LET v == transport.items[k].Value
            IN  IsDecimalInteger(v) =>
                  /\ IsLastFor(transport.items, k, i, sRaumTemp) =>
                       result.sensors[i + 1].RoomTemperature
                         = F32FromRatio(DecimalValue(v), 100)
                  /\ IsLastFor(transport.items, k, i, sSollTemp) =>
                       result.sensors[i + 1].TargetTemperature
                         = F32FromRatio(DecimalValue(v), 100)

\* C8: decoding the pairs that SetTargetTemperature, SetProgram and SetMode
\* sent for a sensor yields a record with the program and the mode that
\* were written and the target temperature that was written, to 1/100
\* degree.
C8_RoundTrip ==
    (op = "GetSensors" /\ Len(written) = 3) =>
        /\ result.status = "ok"
        /\ LET sensor == result.sensors[args.sensorID + 1]
               h0 == args.milli \div 10
           IN  /\ sensor.Program = args.program
               /\ sensor.Mode = args.mode
               /\ \E h \in (h0 - 1)..(h0 + 1) :
                     /\ Abs(10 * h - args.milli) <= 5
                     /\ sensor.TargetTemperature = F32FromRatio(h, 100)

\* C9: when the transport call of a read fails or the body does not decode,
\* GetSensors returns an error and an empty collection, and the transport
\* was invoked exactly once.
C9_ReadFailure ==
    (op = "GetSensors" /\ transport.kind \in {"postFail", "readFail", "badXml"})
        => /\ result.status = "error"
           /\ result.err # NoErr
           /\ result.sensors = <<>>
           /\ Len(httpCalls) = 1
           /\ httpCalls[1].method = "POST"
           /\ httpCalls[1].url = args.managementURL \o sReadPath

C9_Witness ==
    /\ op = "GetSensors"
    /\ transport.kind = "badXml"
    /\ args.sensorCount = 2
    /\ result.err = Err("error parsing xml")
    /\ result.sensors = <<>>

\* C10: a successful GetSensors(sensorCount) returns sensorCount records;
\* the record at position i has Id i if some response item named G<i>.<x>
\* was processed, and is entirely zero-valued otherwise.
C10_IdIsPositionOrZero ==
    (ReadDone /\ result.status = "ok") =>
        /\ Len(result.sensors) = args.sensorCount
        /\ \A i \in 0..(args.sensorCount - 1) :
              IF \E k \in 1..Len(transport.items) : Names(transport.items[k], i)
              THEN result.sensors[i + 1].Id = i
              ELSE result.sensors[i + 1] = ZeroSensor

=============================================================================
